---- MODULE Spec2Model ----
(***************************************************************************)
(* Model of the pg_timeout background worker (src/pg_timeout.c).           *)
(*                                                                         *)
(* The worker process is one sequential program, pg_timeout_main, whose    *)
(* position is pc; the two signal handlers run atomically between any two  *)
(* of its steps.  The session registry (pg_stat_activity) is an external   *)
(* collaborator: the view a transaction works on is drawn when the         *)
(* transaction takes its snapshot and is read by both statements of the    *)
(* cycle.  The cycle's output (log lines, executed statements, terminated  *)
(* backends) is kept for the length of the cycle.                          *)
(***************************************************************************)
EXTENDS Integers, Sequences, FiniteSets

\* ------------------------------------------------------------------ bounds
\* Largest idle age (seconds since state_change) a registry row can show.
MaxAge == 3
\* Largest value of either tunable that a configuration file can hold.
MaxSetting == 2
\* Selects begun after SIGTERM are counted up to this number.
MaxSelectsCounted == 2

\* --------------------------------------------------------- program constants
\* pg_backend_pid(): the identity of the worker's own registry row.
MyPid == 1
\* Lower bound of both tunables (DefineCustomIntVariable minValue).
MinSetting == 1
\* Status handed to proc_exit by the worker itself.
ExitStatus == 1

null_value == "NULL"
\* A C null pointer / SQL null datum.
Null == "<null>"
\* Any non-null text datum.
Text == "text"

SPI_OK_SELECT == "SPI_OK_SELECT"
SPI_ERROR == "SPI_ERROR"

WL_LATCH_SET == "WL_LATCH_SET"
WL_TIMEOUT == "WL_TIMEOUT"
WL_POSTMASTER_DEATH == "WL_POSTMASTER_DEATH"

\* ------------------------------------------------------------ the registry
\* Rows of pg_stat_activity: the worker's own row, a client backend, and a
\* row whose pid datum reads null (the isnull case of SPI_getbinval).
Backends == {1, 2, 3}
NullPidRows == {3}
\* Ages below the smallest timeout all fail the age test alike, so the ages
\* start at that value.
Ages == MinSetting..MaxAge
Settings == MinSetting..MaxSetting
Absent == [state |-> "absent", age |-> 0]
\* What a row can show: idle for any age, or active with the oldest
\* state_change (the age that would qualify were the state not tested).
RowStates ==
    [state : {"idle"}, age : Ages] \cup [state : {"active"}, age : {MaxAge}]
    \cup {Absent}
\* Every content the registry can show to one transaction; the worker's own
\* row is always there.
Registries == {r \in [Backends -> RowStates] : r[MyPid] # Absent}
NoView == [b \in Backends |-> Absent]
FieldVals == {Null, Text}
\* The four text columns of a returned row.
RowFields == [usename : FieldVals, datname : FieldVals,
              application_name : FieldVals, client_hostname : FieldVals]

VARIABLES
    pc,                              \* position in pg_timeout_main
    got_sighup, got_sigterm,         \* flags set by the signal handlers
    latch,                           \* MyLatch is set
    rc,                              \* events reported by the last WaitLatch
    pg_timeout_idle_session_timeout, \* GUC
    pg_timeout_naptime,              \* GUC
    buf_select, buf_kill,            \* the two statements
    xact,                            \* "none", "open" or "aborted"
    activity,                        \* last pgstat_report_activity
    view,                            \* registry as seen by the transaction
    ret,                             \* result code of the last SPI_execute
    tuptable, nr, i,                 \* SPI result and row loop
    log,                             \* lines written in the current cycle
    executed,                        \* statements run in the current cycle
    killed,                          \* backends terminated in this cycle
    wait_timeout,                    \* timeout of the wait in progress, else 0
    sigterm_at,                      \* history: where SIGTERM first arrived
    selects_after_sigterm,           \* history: selects begun since SIGTERM
    exit_status                      \* status of proc_exit, 0 while running

vars == <<pc, got_sighup, got_sigterm, latch, rc,
          pg_timeout_idle_session_timeout, pg_timeout_naptime,
          buf_select, buf_kill, xact, activity, view, tuptable, nr, i,
          ret, log, executed, killed, wait_timeout, sigterm_at,
          selects_after_sigterm, exit_status>>

\* Groups used in UNCHANGED clauses.
flagVars == <<got_sighup, got_sigterm, latch>>
gucVars == <<pg_timeout_idle_session_timeout, pg_timeout_naptime>>
bufVars == <<buf_select, buf_kill>>
spiVars == <<ret, tuptable, nr, i>>
cycleVars == <<log, executed, killed>>
histVars == <<sigterm_at, selects_after_sigterm>>

\* ------------------------------------------------------------ Query Builder
\* appendStringInfo(&buf_select, "SELECT pid, ... INTERVAL '%d' SECOND", T)
BuildSelect(T) ==
    [verb |-> "select", from |-> "pg_stat_activity", interval |-> T]

\* Mutant: the terminate statement is built with a fixed interval instead of
\* the configured one.
BuildKill_FixedInterval(T) ==
    [verb |-> "terminate", from |-> "pg_stat_activity", interval |-> MinSetting]

\* appendStringInfo(&buf_kill, "SELECT pg_terminate_backend(pid) ...", T)
BuildKill(T) ==
    [verb |-> "terminate", from |-> "pg_stat_activity", interval |-> T]

\* Mutant: the statements do not exclude the worker's own row.
NotSelf_Missing(b) == TRUE

\* WHERE pid <> pg_backend_pid()
NotSelf(b) == b # MyPid

\* AND state = 'idle'
StateIsIdle(row) == row.state = "idle"

\* AND state_change < current_timestamp - INTERVAL '%d' SECOND
OlderThan(row, T) == row.age > T

\* The WHERE clause shared by both statements, on row b of registry r.
Qualifies(q, r, b) ==
    /\ NotSelf(b)
    /\ StateIsIdle(r[b])
    /\ OlderThan(r[b], q.interval)

\* Rows the statement q produces on registry r.
Candidates(q, r) == {b \in Backends : Qualifies(q, r, b)}

\* The ways a set of rows can be returned (SQL fixes no order).
Orderings(S) ==
    {s \in [1..Cardinality(S) -> S] : \A b \in S : \E k \in DOMAIN s : s[k] = b}

\* SPI_getbinval(..., 1, &isnull): the pid datum of row b.
PidIsNull(b) == b \in NullPidRows

\* pg_terminate_backend(pid) over the rows of q: a null pid terminates nothing.
Terminated(q, r) == {b \in Candidates(q, r) : ~PidIsNull(b)}

\* What the live registry can have become since the snapshot showed snap:
\* the same, or one row changed (a session connected, left, changed state
\* or aged).
LiveRegistries(snap) ==
    {[snap EXCEPT ![b] = row] : b \in Backends, row \in RowStates}
        \cap Registries

\* Mutant: each statement reads the registry as it is when it runs.
StatementView_Live(snap, live) == live

\* The registry a statement run through SPI reads: that of the snapshot of
\* the transaction it runs in, whatever the live registry has become.
StatementView(snap, live) == snap

\* ------------------------------------------------------------ row rendering
\* Lines 239-246: the values handed to elog for one row.
Rendered(f) ==
    LET usename_val == IF f.usename = Null THEN null_value ELSE f.usename
        datname_val == IF f.datname = Null THEN null_value ELSE f.datname
        hostname_1  == IF f.application_name = Null
                       THEN null_value ELSE f.client_hostname
        hostname_2  == IF hostname_1 = Null THEN null_value ELSE hostname_1
    IN  [usename          |-> usename_val,
         datname          |-> datname_val,
         application_name |-> f.application_name,
         client_hostname  |-> hostname_2]

\* elog(LOG, LOG_MESSAGE, ...) for row b with fields f.
InfoLine(b, f) ==
    [level |-> "LOG", what |-> "idle session", pid |-> b,
     fields |-> f, args |-> Rendered(f), seconds |-> 0]

WarningLine ==
    [level |-> "WARNING", what |-> "pid is NULL", pid |-> 0,
     fields |-> Null, args |-> Null, seconds |-> 0]

FatalLine(what) ==
    [level |-> "FATAL", what |-> what, pid |-> 0,
     fields |-> Null, args |-> Null, seconds |-> 0]

\* elog(LOG, "%s: idle session(s) since %d seconds terminated", ..., T)
SummaryLine(T) ==
    [level |-> "LOG", what |-> "terminated", pid |-> 0,
     fields |-> Null, args |-> Null, seconds |-> T]

\* --------------------------------------------------------------------- Init
\* State on entry to the main loop: _PG_init has defined both GUCs within
\* their bounds and pg_timeout_main has built the two statements.
Init ==
    /\ pc = "check"
    /\ got_sighup = FALSE
    /\ got_sigterm = FALSE
    /\ latch = FALSE
    /\ rc = {}
    /\ pg_timeout_idle_session_timeout \in Settings
    /\ pg_timeout_naptime \in Settings
    /\ buf_select = BuildSelect(pg_timeout_idle_session_timeout)
    /\ buf_kill = BuildKill(pg_timeout_idle_session_timeout)
    /\ xact = "none"
    /\ activity = [state |-> "starting", query |-> Null]
    /\ view = NoView
    /\ ret = "none"
    /\ tuptable = <<>>
    /\ nr = 0
    /\ i = 0
    /\ log = <<>>
    /\ executed = <<>>
    /\ killed = {}
    /\ wait_timeout = 0
    /\ sigterm_at = "never"
    /\ selects_after_sigterm = 0
    /\ exit_status = 0

Running == pc \notin {"exited", "fatal", "crashed"}

\* ---------------------------------------------------------- signal handlers
\* Mutant: the shutdown handler records the request without SetLatch.
pg_timeout_sigterm_NoSetLatch ==
    /\ Running
    /\ got_sigterm' = TRUE
    /\ sigterm_at' = IF sigterm_at # "never" THEN sigterm_at
                     ELSE IF pc = "wait" THEN "wait" ELSE "elsewhere"
    /\ UNCHANGED <<pc, got_sighup, latch, rc, gucVars, bufVars, xact, activity,
                   view, spiVars, cycleVars, wait_timeout,
                   selects_after_sigterm, exit_status>>

pg_timeout_sigterm ==
    /\ Running
    /\ got_sigterm' = TRUE
    /\ latch' = TRUE
    /\ sigterm_at' = IF sigterm_at # "never" THEN sigterm_at
                     ELSE IF pc = "wait" THEN "wait" ELSE "elsewhere"
    /\ UNCHANGED <<pc, got_sighup, rc, gucVars, bufVars, xact, activity, view,
                   spiVars, cycleVars, wait_timeout, selects_after_sigterm,
                   exit_status>>

\* Mutant: the reload handler records the request without SetLatch.
pg_timeout_sighup_NoSetLatch ==
    /\ Running
    /\ got_sighup' = TRUE
    /\ UNCHANGED <<pc, got_sigterm, latch, rc, gucVars, bufVars, xact, activity,
                   view, spiVars, cycleVars, wait_timeout, histVars,
                   exit_status>>

pg_timeout_sighup ==
    /\ Running
    /\ got_sighup' = TRUE
    /\ latch' = TRUE
    /\ UNCHANGED <<pc, got_sigterm, rc, gucVars, bufVars, xact, activity, view,
                   spiVars, cycleVars, wait_timeout, histVars, exit_status>>

\* ---------------------------------------------------------------- main loop
\* Mutant: the wait is timed by the other setting.
WaitTimeout_OtherSetting == pg_timeout_idle_session_timeout

\* The timeout handed to WaitLatch, in seconds: pg_timeout_naptime * 1000L ms.
WaitTimeout == pg_timeout_naptime

\* Mutant: the loop condition never sees the shutdown request.
ShutdownRequested_Unseen == FALSE

\* The request tested by while (!got_sigterm).
ShutdownRequested == got_sigterm

\* while (!got_sigterm) ... proc_exit(1)
LoopCheck ==
    /\ pc = "check"
    /\ IF ShutdownRequested
       THEN /\ pc' = "exited"
            /\ exit_status' = ExitStatus
            /\ wait_timeout' = wait_timeout
       ELSE /\ pc' = "wait"
            /\ wait_timeout' = WaitTimeout
            /\ exit_status' = exit_status
    /\ UNCHANGED <<flagVars, rc, gucVars, bufVars, xact, activity, view,
                   spiVars, cycleVars, histVars>>

\* The event sets WaitLatch can return: a set latch ends the wait at once;
\* otherwise the timeout expires; the postmaster may be found dead.
WakeEvents ==
    IF latch
    THEN {{WL_LATCH_SET}, {WL_LATCH_SET, WL_POSTMASTER_DEATH},
          {WL_POSTMASTER_DEATH}}
    ELSE {{WL_TIMEOUT}, {WL_POSTMASTER_DEATH}}

\* rc = WaitLatch(MyLatch, WL_LATCH_SET | WL_TIMEOUT | WL_POSTMASTER_DEATH, ...)
WaitLatch ==
    /\ pc = "wait"
    /\ \E ev \in WakeEvents : rc' = ev
    /\ wait_timeout' = 0
    /\ pc' = "reset"
    /\ UNCHANGED <<flagVars, gucVars, bufVars, xact, activity, view, spiVars,
                   cycleVars, histVars, exit_status>>

\* Mutant: the emergency bailout is missing.
PostmasterDied_Ignored(events) == FALSE

\* if (rc & WL_POSTMASTER_DEATH)
PostmasterDied(events) == WL_POSTMASTER_DEATH \in events

\* ResetLatch(MyLatch); if (rc & WL_POSTMASTER_DEATH) proc_exit(1);
\* CHECK_FOR_INTERRUPTS() finds nothing pending: SIGTERM goes to the
\* worker's own handler.  When the loop goes on, rc is not read again
\* before the next WaitLatch.
ResetLatch ==
    /\ pc = "reset"
    /\ latch' = FALSE
    /\ IF PostmasterDied(rc)
       THEN /\ pc' = "exited"
            /\ exit_status' = ExitStatus
            /\ rc' = rc
       ELSE /\ pc' = "hup"
            /\ exit_status' = exit_status
            /\ rc' = {}
    /\ UNCHANGED <<got_sighup, got_sigterm, gucVars, bufVars, xact,
                   activity, view, spiVars, cycleVars, wait_timeout,
                   histVars>>

\* if (got_sighup) { got_sighup = false; ProcessConfigFile(PGC_SIGHUP); }
\* The file's content at that moment is an input within the GUC bounds.
ReloadConfig ==
    /\ pc = "hup"
    /\ IF got_sighup
       THEN /\ got_sighup' = FALSE
            /\ \E t \in Settings, n \in Settings :
                 /\ pg_timeout_idle_session_timeout' = t
                 /\ pg_timeout_naptime' = n
       ELSE UNCHANGED <<got_sighup, gucVars>>
    /\ pc' = "start"
    /\ UNCHANGED <<got_sigterm, latch, rc, bufVars, xact, activity, view,
                   spiVars, cycleVars, wait_timeout, histVars, exit_status>>

\* SetCurrentStatementStartTimestamp(); StartTransactionCommand();
\* SPI_connect(); PushActiveSnapshot(GetTransactionSnapshot());
\* pgstat_report_activity(STATE_RUNNING, buf_select.data);
StartTransaction ==
    /\ pc = "start"
    /\ xact' = "open"
    /\ \E r \in Registries : view' = r
    /\ activity' = [state |-> "running", query |-> buf_select]
    /\ pc' = "select"
    /\ UNCHANGED <<flagVars, rc, gucVars, bufVars, spiVars, cycleVars,
                   wait_timeout, histVars, exit_status>>

\* Mutant: the failure is only reported and the worker carries on.
Fatal_Continues(what) ==
    /\ log' = Append(log, FatalLine(what))
    /\ pc' = "rows"
    /\ UNCHANGED <<xact, view, exit_status>>

\* Mutant: a fatal error exits with a status of its own.
FatalExitStatus_Distinct == ExitStatus + 1

\* elog(FATAL, ...) ends the process through proc_exit(1).
FatalExitStatus == 1

\* elog(FATAL, ...): the line is written, the transaction is aborted (its
\* snapshot released) and the process exits.
Fatal(what) ==
    /\ log' = Append(log, FatalLine(what))
    /\ xact' = "aborted"
    /\ view' = NoView
    /\ pc' = "fatal"
    /\ exit_status' = FatalExitStatus

\* ret = SPI_execute(buf_select.data, false, 0); ... nr = SPI_processed;
ExecSelect ==
    /\ pc = "select"
    /\ executed' = Append(executed, buf_select)
    /\ \E code \in {SPI_OK_SELECT, SPI_ERROR} :
         /\ ret' = code
         /\ IF code # SPI_OK_SELECT
            THEN /\ Fatal("cannot select from pg_stat_activity")
                 /\ UNCHANGED <<tuptable, nr, i>>
            ELSE /\ \E live \in LiveRegistries(view) :
                    \E rows \in Orderings(Candidates(buf_select,
                                           StatementView(view, live))) :
                      /\ tuptable' = rows
                      /\ nr' = Len(rows)
                 /\ i' = 0
                 /\ pc' = "rows"
                 /\ UNCHANGED <<log, xact, view, exit_status>>
    /\ selects_after_sigterm' =
         IF got_sigterm /\ selects_after_sigterm < MaxSelectsCounted
         THEN selects_after_sigterm + 1
         ELSE selects_after_sigterm
    /\ UNCHANGED <<flagVars, rc, gucVars, bufVars, activity, killed,
                   wait_timeout, sigterm_at>>

\* One iteration of for (i = 0; i < nr; i++), lines 214-255.  Passing a
\* null application_name_val to elog's %s is undefined: the line comes out
\* or the process crashes.
ProcessRow ==
    /\ pc = "rows"
    /\ i < nr
    /\ LET b == tuptable[i + 1] IN
       IF ~PidIsNull(b)
       THEN \E f \in RowFields :
              \/ /\ log' = Append(log, InfoLine(b, f))
                 /\ i' = i + 1
                 /\ UNCHANGED <<pc, exit_status>>
              \/ /\ Rendered(f).application_name = Null
                 /\ pc' = "crashed"
                 /\ exit_status' = ExitStatus
                 /\ UNCHANGED <<log, i>>
       ELSE /\ log' = Append(log, WarningLine)
            /\ i' = i + 1
            /\ UNCHANGED <<pc, exit_status>>
    /\ UNCHANGED <<flagVars, rc, gucVars, bufVars, xact, activity, view,
                   ret, tuptable, nr, executed, killed, wait_timeout,
                   histVars>>

\* Mutant: the terminate statement is issued without testing the row count.
HasCandidates_Untested(n) == TRUE

\* if (nr > 0)
HasCandidates(n) == n > 0

\* Loop exit (i < nr is false) and the test of line 257.
EndRows ==
    /\ pc = "rows"
    /\ i >= nr
    /\ pc' = IF HasCandidates(nr) THEN "kill" ELSE "commit"
    /\ UNCHANGED <<flagVars, rc, gucVars, bufVars, xact, activity, view,
                   spiVars, cycleVars, wait_timeout, histVars, exit_status>>

\* ret = SPI_execute(buf_kill.data, false, 0); ... elog(LOG, "...terminated")
ExecKill ==
    /\ pc = "kill"
    /\ executed' = Append(executed, buf_kill)
    /\ \E code \in {SPI_OK_SELECT, SPI_ERROR} :
         /\ ret' = code
         /\ IF code # SPI_OK_SELECT
            THEN /\ Fatal("cannot select pg_terminate_backend")
                 /\ UNCHANGED killed
            ELSE /\ \E live \in LiveRegistries(view) :
                      killed' = Terminated(buf_kill,
                                           StatementView(view, live))
                 /\ log' = Append(log,
                                  SummaryLine(pg_timeout_idle_session_timeout))
                 /\ pc' = "commit"
                 /\ UNCHANGED <<xact, view, exit_status>>
    /\ UNCHANGED <<flagVars, rc, gucVars, bufVars, activity, tuptable,
                   nr, i, wait_timeout, histVars>>

\* Mutant: the cycle ends without committing.
CommitTransactionCommand_Missing == xact

\* CommitTransactionCommand(): the transaction state it leaves.
CommitTransactionCommand == "none"

\* SPI_finish(); PopActiveSnapshot(); CommitTransactionCommand();
\* The cycle's result and records are released with it.
CommitTransaction ==
    /\ pc = "commit"
    /\ xact' = CommitTransactionCommand
    /\ ret' = "none"
    /\ view' = NoView
    /\ tuptable' = <<>>
    /\ nr' = 0
    /\ i' = 0
    /\ log' = <<>>
    /\ executed' = <<>>
    /\ killed' = {}
    /\ pc' = "report"
    /\ UNCHANGED <<flagVars, rc, gucVars, bufVars, activity, wait_timeout,
                   histVars, exit_status>>

\* Mutant: the status is left as it was reported at the start of the cycle.
STATE_IDLE_Unreported == activity.state

\* The status pgstat_report_activity(STATE_IDLE, NULL) reports.
STATE_IDLE == "idle"

\* pgstat_report_stat(false); pgstat_report_activity(STATE_IDLE, NULL);
ReportIdle ==
    /\ pc = "report"
    /\ activity' = [state |-> STATE_IDLE, query |-> Null]
    /\ pc' = "check"
    /\ UNCHANGED <<flagVars, rc, gucVars, bufVars, xact, view, spiVars,
                   cycleVars, wait_timeout, histVars, exit_status>>

Next ==
    \/ pg_timeout_sigterm
    \/ pg_timeout_sighup
    \/ LoopCheck
    \/ WaitLatch
    \/ ResetLatch
    \/ ReloadConfig
    \/ StartTransaction
    \/ ExecSelect
    \/ ProcessRow
    \/ EndRows
    \/ ExecKill
    \/ CommitTransaction
    \/ ReportIdle

Spec == Init /\ [][Next]_vars

\* The steps of pg_timeout_main, as opposed to those of the signal handlers.
MainStep ==
    \/ LoopCheck
    \/ WaitLatch
    \/ ResetLatch
    \/ ReloadConfig
    \/ StartTransaction
    \/ ExecSelect
    \/ ProcessRow
    \/ EndRows
    \/ ExecKill
    \/ CommitTransaction
    \/ ReportIdle

\* The worker keeps running: a wait ends by its latch or its timeout, a
\* started statement returns, and straight-line code proceeds.
FairSpec == Spec /\ WF_vars(MainStep)

\* ------------------------------------------------------------------ helpers
Range(s) == {s[k] : k \in DOMAIN s}
Verbs(seq) == [k \in DOMAIN seq |-> seq[k].verb]
\* The cycle's statements have run and the cycle is about to commit.
CycleDone == pc = "commit"
InfoLines == {k \in DOMAIN log : log[k].what = "idle session"}
\* A step of the main program out of the row loop's body (handlers leave
\* pc, i and log alone).
RowStep == pc = "rows" /\ i < nr /\ <<pc, i, log>>' # <<pc, i, log>>

\* ------------------------------------------------------------------- claims

\* C1: after a reload has installed an idle_session_timeout, the select and
\* the terminate statement executed in a cycle are built from that value,
\* the one in force, never from the value held before the reload.
C1_StatementsUseReloadedTimeout ==
    \A k \in DOMAIN executed :
        executed[k].interval = pg_timeout_idle_session_timeout

\* C2: in every cycle the timeout embedded in the terminate statement equals
\* the timeout embedded in the select statement executed before it.
C2_SameTimeoutInBothStatements ==
    Len(executed) = 2 =>
        /\ Verbs(executed) = <<"select", "terminate">>
        /\ executed[2].interval = executed[1].interval

\* A cycle ran both statements after a reload had changed the timeout.
C2_Witness ==
    /\ CycleDone
    /\ Len(executed) = 2
    /\ pg_timeout_idle_session_timeout # executed[1].interval

\* C3: when the shutdown signal arrives while the worker is in the timer
\* wait, the worker exits without starting a transaction and without
\* executing a select or terminate statement.
C3_NoCycleAfterShutdownInWait ==
    sigterm_at = "wait" => (xact = "none" /\ executed = <<>>)

\* C4: in a finished cycle with timeout T in force, every other session with
\* a pid that is idle and older than T was returned by the select and
\* terminated, and no session idle for less than T was returned or
\* terminated.
C4_IdlePolicyAtTimeoutInForce ==
    CycleDone =>
        \A b \in Backends \ {MyPid} :
            /\ (/\ view[b].state = "idle"
                /\ view[b].age > pg_timeout_idle_session_timeout
                /\ ~PidIsNull(b))
               => (b \in Range(tuptable) /\ b \in killed)
            /\ (/\ view[b].state = "idle"
                /\ view[b].age < pg_timeout_idle_session_timeout)
               => (b \notin Range(tuptable) /\ b \notin killed)

\* C5: the terminate statement is executed at most once per cycle, only
\* after the select of that cycle, and exactly when that select returned at
\* least one row, a row with a null pid included.
C5_TerminateIffRows ==
    /\ Len(executed) <= 2
    /\ \A k \in DOMAIN executed :
           executed[k].verb = "terminate"
               => (k = 2 /\ executed[1].verb = "select" /\ nr > 0)
    /\ CycleDone => (Len(executed) = 2 <=> nr > 0)

\* The select returned one row, its pid null, and the terminate ran.
C5_Witness ==
    /\ CycleDone
    /\ nr = 1
    /\ PidIsNull(tuptable[1])
    /\ Verbs(executed) = <<"select", "terminate">>

\* C6: when the select fails, a fatal line is the only line of the cycle,
\* no terminate statement is executed, nothing is terminated, the
\* transaction is aborted rather than committed, and the process is gone:
\* no step follows.
C6_SelectFailureState ==
    (ret = SPI_ERROR /\ Len(executed) = 1) =>
        /\ pc = "fatal"
        /\ log = <<FatalLine("cannot select from pg_stat_activity")>>
        /\ executed = <<buf_select>>
        /\ killed = {}
        /\ tuptable = <<>>
        /\ xact = "aborted"
        /\ exit_status # 0

\* C6: a select failure is fatal: the state above holds whenever the select
\* has failed, and the process takes no further step once it is fatal.
C6_SelectFailureIsFatal ==
    /\ []C6_SelectFailureState
    /\ [][pc = "fatal" => UNCHANGED vars]_vars

C6_Witness ==
    ret = SPI_ERROR /\ Len(executed) = 1 /\ pc = "fatal"

\* C7: the worker's own row is never among the returned rows and is never
\* terminated, whatever state and age it shows.
C7_SelfExcluded ==
    /\ MyPid \notin Range(tuptable)
    /\ MyPid \notin killed

\* Both statements ran on a view where the worker's own row is idle and old
\* enough to qualify on state and age.
C7_Witness ==
    /\ CycleDone
    /\ Len(executed) = 2
    /\ view[MyPid].state = "idle"
    /\ view[MyPid].age > buf_select.interval

C9_NullFieldsRendered ==
    \A k \in InfoLines :
        LET f == log[k].fields
            a == log[k].args
            Shown(v) == IF v = Null THEN null_value ELSE v
        IN  /\ a.usename = Shown(f.usename)
            /\ a.datname = Shown(f.datname)
            /\ a.application_name = Shown(f.application_name)
            /\ a.client_hostname = Shown(f.client_hostname)

\* C10: no transaction is open while the worker is at or in the timer wait:
\* a transaction started in a cycle has been committed, or the process has
\* exited, before the next wait.
C10_NoTransactionAcrossWait ==
    /\ pc \in {"check", "wait", "reset", "hup", "start"} => xact = "none"
    /\ xact = "open" => pc \in {"select", "rows", "kill", "commit", "crashed"}
    /\ xact = "aborted" => pc = "fatal"

\* The worker waits again after a cycle that opened and committed a
\* transaction.
C10_Witness ==
    pc = "wait" /\ activity.state = "idle" /\ xact = "none"

\* C11: when the wait returns with the postmaster-death event, the next step
\* of the worker is the exit of the process: no reload (the reload flag and
\* both tunables stay as they are), no transaction, no statement, whatever
\* flags are set; and an exited process takes no step.
C11_PostmasterDeathExitsAtOnce ==
    /\ [][(pc = "reset" /\ WL_POSTMASTER_DEATH \in rc /\ pc' # pc) =>
            /\ pc' = "exited"
            /\ exit_status' # 0
            /\ UNCHANGED <<got_sighup, got_sigterm, gucVars, bufVars, xact,
                           activity, view, spiVars, cycleVars>>]_vars
    /\ [][pc = "exited" => UNCHANGED vars]_vars
    /\ [](pc = "exited" => (xact = "none" /\ executed = <<>>))

\* The process has exited on postmaster death with both flags pending.
C11_Witness ==
    /\ pc = "exited"
    /\ WL_POSTMASTER_DEATH \in rc
    /\ got_sighup
    /\ got_sigterm
    /\ xact = "none"

C13_TerminateFailureState ==
    (ret = SPI_ERROR /\ Len(executed) = 2) =>
        /\ pc = "fatal"
        /\ log # <<>>
        /\ log[Len(log)] = FatalLine("cannot select pg_terminate_backend")
        /\ \A k \in DOMAIN log : log[k].what # "terminated"
        /\ executed = <<buf_select, buf_kill>>
        /\ killed = {}
        /\ xact = "aborted"
        /\ exit_status # 0

\* C13: a terminate failure is fatal: the state above holds whenever the
\* terminate statement has failed, and a fatal process takes no step.
C13_TerminateFailureIsFatal ==
    /\ []C13_TerminateFailureState
    /\ [][pc = "fatal" => UNCHANGED vars]_vars

C13_Witness ==
    ret = SPI_ERROR /\ Len(executed) = 2 /\ pc = "fatal" /\ Len(log) > 1

\* C14: a termination summary line reports the number of seconds embedded
\* in the terminate statement executed in the same cycle.
C14_SummaryReportsStatementTimeout ==
    \A k \in DOMAIN log :
        log[k].what = "terminated" =>
            /\ Len(executed) = 2
            /\ log[k].seconds = executed[2].interval

\* C15: a reload request seen after a wake is cleared and the settings are
\* reloaded while no transaction is open and before the cycle's transaction
\* starts; the settings change at no other step; and every wait is timed by
\* the naptime in force, so a reloaded naptime times all later waits.
C15_ReloadBeforeTransaction ==
    /\ [](pc = "wait" => wait_timeout = pg_timeout_naptime)
    /\ [][(pc = "hup" /\ got_sighup /\ pc' # pc) =>
            /\ ~got_sighup'
            /\ pc' = "start"
            /\ xact = "none" /\ xact' = "none"
            /\ executed = <<>> /\ executed' = <<>>]_vars
    /\ [][gucVars' # gucVars => (pc = "hup" /\ got_sighup /\ ~got_sighup')]_vars

C15_Witness ==
    /\ pc = "wait"
    /\ pg_timeout_idle_session_timeout # buf_select.interval
    /\ wait_timeout = pg_timeout_naptime
    /\ pg_timeout_naptime # pg_timeout_idle_session_timeout

\* The worker has left the loop on a shutdown request (line 279), not on the
\* postmaster's death (line 170).
ShutdownExit == pc = "exited" /\ WL_POSTMASTER_DEATH \notin rc

programVars ==
    <<pc, rc, gucVars, bufVars, xact, activity, view, spiVars, cycleVars,
      wait_timeout, exit_status>>

\* C17: a step that raises a flag is a handler step: it raises only that
\* flag, sets the latch and leaves the other flag and every piece of program
\* state (settings, statements, transaction, log) as it was; a step that
\* sets the latch lowers no flag and changes no program state; and the
\* reload flag is cleared only by the main loop's reload step.
C17_HandlersOnlySetFlagAndLatch ==
    /\ [][(~got_sighup /\ got_sighup') =>
            (latch' /\ UNCHANGED <<got_sigterm, programVars>>)]_vars
    /\ [][(~got_sigterm /\ got_sigterm') =>
            (latch' /\ UNCHANGED <<got_sighup, programVars>>)]_vars
    /\ [][(~latch /\ latch') =>
            /\ got_sighup' \/ got_sigterm'
            /\ got_sighup => got_sighup'
            /\ got_sigterm => got_sigterm'
            /\ UNCHANGED programVars]_vars
    /\ [][(got_sighup /\ ~got_sighup') =>
            (pc = "hup" /\ pc' = "start" /\ UNCHANGED <<got_sigterm, latch>>)]_vars

C17_Witness ==
    /\ got_sighup /\ latch /\ ~got_sigterm
    /\ pc = "kill" /\ xact = "open" /\ log # <<>>

\* The steps of a cycle in their order, read off the cycle's records: before
\* the transaction nothing is executed or logged; the select runs in the open
\* transaction under the 'running' status; the rows are logged after a
\* successful select; the terminate statement, when it runs, follows them;
\* the summary line follows the terminate statement; then comes the commit.
CycleOrder ==
    /\ pc \in {"check", "wait", "reset", "hup", "start", "report"} =>
         (xact = "none" /\ executed = <<>> /\ log = <<>>)
    /\ pc \in {"check", "wait", "reset", "hup", "start"} =>
         activity.state # "running"
    /\ pc \in {"select", "rows", "kill", "commit"} =>
         (xact = "open" /\ activity = [state |-> "running", query |-> buf_select])
    /\ pc = "select" => (executed = <<>> /\ log = <<>>)
    /\ pc = "rows" =>
         /\ Verbs(executed) = <<"select">> /\ ret = SPI_OK_SELECT
         /\ Len(log) = i /\ i <= nr
    /\ pc = "kill" =>
         /\ Verbs(executed) = <<"select">> /\ ret = SPI_OK_SELECT
         /\ Len(log) = nr /\ nr > 0
    /\ pc = "commit" =>
         /\ ret = SPI_OK_SELECT
         /\ \/ Verbs(executed) = <<"select">> /\ Len(log) = nr /\ nr = 0
            \/ /\ Verbs(executed) = <<"select", "terminate">>
               /\ Len(log) = nr + 1 /\ log[nr + 1].what = "terminated"
    /\ \A k \in DOMAIN log :
         k <= nr => log[k].what \in {"idle session", "pid is NULL"}

\* The terminate statement starts only in an open transaction, after the
\* successful select of the same cycle; the transaction closes only from the
\* commit step or by a fatal abort.
TerminateInsideTransaction ==
    (Len(executed') > Len(executed) /\ executed'[Len(executed')].verb = "terminate")
        => /\ xact = "open" /\ activity.state = "running"
           /\ Verbs(executed) = <<"select">> /\ ret = SPI_OK_SELECT
           /\ pc = "kill"

\* C18: the steps of a cycle occur in the stated order, the terminate
\* statement runs only inside the open transaction after a successful select
\* and before the commit, and while the worker runs its reported status is
\* 'running' only while a transaction is open.
C18_RunningOnlyInTransaction ==
    /\ []CycleOrder
    /\ [][TerminateInsideTransaction]_vars
    /\ []((Running /\ activity.state = "running") => xact = "open")

\* C18 (amended): the steps of a cycle occur in the stated order and the
\* terminate statement runs only inside the open transaction after a
\* successful select and before the commit; the status is reported 'running'
\* right after the transaction starts and 'idle' right after the commit, so
\* it is 'running' while the transaction is open and still 'running', with
\* no transaction open, between the commit and the 'idle' report.
C18_RunningUntilIdleReport ==
    /\ []CycleOrder
    /\ [][TerminateInsideTransaction]_vars
    /\ []((Running /\ activity.state = "running") =>
            (xact = "open" \/ pc = "report"))
    /\ [](pc = "report" => (xact = "none" /\ activity.state = "running"))
    /\ [][(pc = "report" /\ pc' # pc) =>
            (pc' = "check" /\ activity' = [state |-> "idle", query |-> Null])]_vars
    /\ [][(xact = "open" /\ xact' = "none") => (pc = "commit" /\ pc' = "report")]_vars

C18_Witness == pc = "report" /\ xact = "none" /\ activity.state = "running"

\* C19: no wakeup is lost: whenever the worker is at the wait (entering it or
\* blocked in it) with a reload or shutdown request pending, the latch is
\* set; a reload request raised anywhere after the reload step keeps the
\* latch set until the wait; and a wait with a request pending never ends by
\* its timeout.
C19_NoLostWakeup ==
    /\ []((pc = "wait" /\ (got_sighup \/ got_sigterm)) => latch)
    /\ []((got_sighup /\ pc \in {"start", "select", "rows", "kill", "commit",
                                 "report", "check"}) => latch)
    /\ [][(pc = "wait" /\ (got_sighup \/ got_sigterm) /\ pc' # pc) =>
            (WL_TIMEOUT \notin rc' /\ wait_timeout' = 0)]_vars

C19_Witness ==
    /\ pc = "reset" /\ WL_LATCH_SET \in rc /\ latch
    /\ got_sighup /\ got_sigterm /\ sigterm_at = "elsewhere"

\* C20: once a shutdown request has been delivered, at whatever point of
\* the loop, the worker eventually ends its process, and at most one select
\* execution begins between the delivery and the exit.
C20_ShutdownEndsWithinOneCycle ==
    /\ [](selects_after_sigterm <= 1)
    /\ [](~got_sigterm => selects_after_sigterm = 0)
    /\ got_sigterm ~> ~Running

C20_Witness ==
    ShutdownExit /\ selects_after_sigterm = 1 /\ sigterm_at = "elsewhere"

====
